---- MODULE Spec2Model ----
(***************************************************************************)
(* Media search application: the backend search orchestrator              *)
(* (mediaController searchMedia, two variants), the searches table, the    *)
(* authentication controller (register / login / getProfile /              *)
(* authMiddleware) over the Sequelize User model, the Openverse clients    *)
(* and the auth slice of the frontend.                                     *)
(*                                                                         *)
(* The specifications of the module:                                       *)
(*   Spec      the search request pipeline and the searches table          *)
(*   SpecHistory  the search-history store and the deleteSearch handler     *)
(*   SpecAuth  registration, login and profile                             *)
(*   SpecToken registration and the bearer-token middleware                *)
(*   SpecRecent  the history of one busy user, past the default limit      *)
(*   SpecOpenverse  one call of an Openverse client                        *)
(*   SpecMapping  the mapping of raw Openverse items                       *)
(*   SpecSession  the browser session of the frontend auth slice           *)
(*   SpecMedia  the media slice with fetches in flight                     *)
(*   SpecStoredAuth  the auth slice that persists the token, with thunks   *)
(*   SpecLoginPage  the Login page with its rate limit                     *)
(*   SpecHome  the Home page with its search history                       *)
(*   SpecPagination  the Pagination component                              *)
(* A deployment runs one variant of each controller; `variant` is chosen   *)
(* in the initial state and never changes.                                 *)
(***************************************************************************)
EXTENDS Integers, Sequences, FiniteSets, TLC

VARIABLES
  variant,       \* "v1": the CommonJS controllers, "v2": the TypeScript ones
  searches,      \* rows of table searches
  nextSearchId,  \* AUTO_INCREMENT counter of searches.id
  now,           \* database / server clock
  req,           \* the search requests, each with its position in the handler
  users,         \* rows of table users
  nextUserId,    \* AUTO_INCREMENT counter of users.id
  tokens,        \* bearer tokens issued so far
  reg,           \* the register requests, each with its position
  authResp,     \* the last response of login / getProfile
  authRes,       \* the last outcome of authMiddleware
  histRes,       \* the last search-history operation and its result
  ov,            \* the call of an Openverse client, with its position
  mapped,        \* the last mapping of a raw Openverse item, and its repetition
  session,       \* the browser session: the auth slice and localStorage
  media,         \* the media slice and the fetchMedia thunks in flight
  auth,          \* the auth slice that persists the token, and its thunks
  loginPage,     \* the Login page component
  home,          \* the page that keeps the search history
  pager          \* the Pagination component

vars == <<variant, searches, nextSearchId, now, req, users, nextUserId,
          tokens, reg, authResp, authRes, histRes, ov, mapped, session,
          media, auth, loginPage, home, pager>>

uiVars == <<media, auth, loginPage, home, pager>>

clientVars == <<ov, mapped, session>>
serverVars == <<variant, searches, nextSearchId, req, users, nextUserId,
                tokens, reg, authResp, authRes, histRes>>

searchVars == <<searches, nextSearchId, req>>
authVars == <<users, nextUserId, tokens, reg, authResp, authRes>>

(***************************************************************************)
(* Bounds                                                                  *)
(***************************************************************************)
MaxTime == 1
MaxSearchId == 3

Variants == {"v1", "v2"}
\* the search requests a run handles; they may overlap in time
Requests == {"r1", "r2"}
UserIds == {1, 2}

(***************************************************************************)
(* Strings are sequences of one-character strings, so that trimming and    *)
(* escaping are computed and not assumed.                                  *)
(***************************************************************************)
RECURSIVE TrimLeft(_)
TrimLeft(s) ==
  IF s # <<>> /\ Head(s) = " " THEN TrimLeft(Tail(s)) ELSE s

RECURSIVE TrimRight(_)
TrimRight(s) ==
  IF s # <<>> /\ s[Len(s)] = " " THEN TrimRight(SubSeq(s, 1, Len(s) - 1)) ELSE s

Trim(s) == TrimRight(TrimLeft(s))

EscapeChar(c) ==
  CASE c = "<" -> <<"&", "l", "t", ";">>
    [] c = ">" -> <<"&", "g", "t", ";">>
    [] c = "&" -> <<"&", "a", "m", "p", ";">>
    [] OTHER -> <<c>>

RECURSIVE Escape(_)
Escape(s) ==
  IF s = <<>> THEN <<>> ELSE EscapeChar(Head(s)) \o Escape(Tail(s))

(***************************************************************************)
(* Search request inputs                                                   *)
(***************************************************************************)
Absent == "absent"
RawQueries == { <<>>, <<" ">>, <<" ", "c", "<">> }
RawMediaTypes == { Absent, "audio", "gif" }
RawPages == { {}, {0}, {2} }
UpstreamOutcomes == { "ok", "http404", "http500", "network" }

DEFAULT_MEDIA_TYPE == "image"
MediaTypeEnum == { "image", "audio", "video" }

HttpStatusOf(outcome) ==
  CASE outcome = "http404" -> 404
    [] outcome = "http500" -> 500
    [] OTHER -> 0

IdleReq ==
  [ pc |-> "idle", raw |-> <<>>, q |-> <<>>, mt |-> "none", page |-> 0,
    user |-> 0, upstream |-> "none", calls |-> 0, inserts |-> 0, row |-> 0,
    status |-> 0, body |-> "none", logged |-> FALSE ]

\* searchValidators: q notEmpty; media_type optional isIn; page optional isInt min 1
ValidatorErrors(rawq, rawmt, rawpage) ==
  (IF rawq = <<>> THEN {"q"} ELSE {})
  \cup (IF rawmt # Absent /\ rawmt \notin MediaTypeEnum THEN {"media_type"} ELSE {})
  \cup (IF \E p \in rawpage : p < 1 THEN {"page"} ELSE {})

\* mutant: v1 without its `if (!q)` guard
SearchRejectedNoGuard(v, rawq, rawmt, rawpage) ==
  IF v = "v1" THEN FALSE
  ELSE ValidatorErrors(rawq, rawmt, rawpage) # {}

\* what the handler rejects with 400 before any other processing
SearchRejected(v, rawq, rawmt, rawpage) ==
  IF v = "v1" THEN rawq = <<>>
  ELSE ValidatorErrors(rawq, rawmt, rawpage) # {}

\* req.query.q as the handler sees it (v2: after the validators' sanitizers)
HandlerQuery(v, rawq) ==
  IF v = "v1" THEN rawq ELSE Escape(Trim(rawq))

HandlerMediaType(rawmt) ==
  IF rawmt = Absent THEN DEFAULT_MEDIA_TYPE ELSE rawmt

HandlerPage(v, rawpage) ==
  IF v = "v1" THEN 0
  ELSE IF rawpage = {} THEN 1 ELSE CHOOSE p \in rawpage : TRUE

(***************************************************************************)
(* searchMedia: validation and the outbound GET                            *)
(***************************************************************************)
SearchStart(i, rawq, rawmt, rawpage, u) ==
  /\ req[i].pc = "idle"
  /\ IF SearchRejected(variant, rawq, rawmt, rawpage)
       THEN req' = [req EXCEPT ![i] =
                      [IdleReq EXCEPT !.pc = "done", !.raw = rawq, !.user = u,
                                      !.status = 400, !.body = "validation"]]
       ELSE req' = [req EXCEPT ![i] =
                      [IdleReq EXCEPT !.pc = "awaitCall", !.raw = rawq,
                                      !.q = HandlerQuery(variant, rawq),
                                      !.mt = HandlerMediaType(rawmt),
                                      !.page = HandlerPage(variant, rawpage),
                                      !.user = u, !.upstream = "pending",
                                      !.calls = 1]]
  /\ UNCHANGED <<variant, clientVars, uiVars, searches, nextSearchId, now, authVars, histRes>>

\* mutant: the catch block answers as if the search had succeeded
UpstreamErrorStatusSwallowed(v, outcome) == 200

\* the status of the catch block for a failed Openverse call
UpstreamErrorStatus(v, outcome) ==
  IF v = "v2" /\ HttpStatusOf(outcome) # 0 THEN HttpStatusOf(outcome) ELSE 500

\* mutant: the history write does not depend on the outcome of the call
ShouldPersistAnyOutcome(r, outcome) == r.user # 0

\* the history write is attempted after a successful call, for req.user only
ShouldPersist(r, outcome) == outcome = "ok" /\ r.user # 0

(***************************************************************************)
(* searchMedia: the awaited axios.get settles                              *)
(***************************************************************************)
SearchCallReturns(i, outcome) ==
  LET r == req[i]
      up == IF outcome = "ok" THEN "ok" ELSE "fail"
      st == IF outcome = "ok" THEN 200 ELSE UpstreamErrorStatus(variant, outcome)
      bd == IF outcome = "ok" THEN "results" ELSE "error"
  IN
  /\ r.pc = "awaitCall"
  /\ IF ShouldPersist(r, outcome)
       THEN req' = [req EXCEPT ![i] =
                      [r EXCEPT !.pc = "awaitInsert", !.upstream = up,
                                !.inserts = r.inserts + 1,
                                !.status = st, !.body = bd]]
       ELSE req' = [req EXCEPT ![i] =
                      [r EXCEPT !.pc = "done", !.upstream = up,
                                !.status = st, !.body = bd,
                                !.logged = (outcome # "ok")]]
  /\ UNCHANGED <<variant, clientVars, uiVars, searches, nextSearchId, now, authVars, histRes>>

\* the response after a failed history INSERT
InsertFailureStatus(v, st) == IF v = "v1" THEN 500 ELSE st

InsertFailureBody(v, bd) == IF v = "v1" THEN "error" ELSE bd

\* mutant: the INSERT binds the default media type instead of the requested one
NewSearchRowDefaultType(id, r, t) ==
  [ id |-> id, user_id |-> r.user, query |-> r.q,
    media_type |-> DEFAULT_MEDIA_TYPE, created_at |-> t ]

NewSearchRow(id, r, t) ==
  [ id |-> id, user_id |-> r.user, query |-> r.q, media_type |-> r.mt,
    created_at |-> t ]

\* the searches table accepts a row: the ENUM column and the database itself
InsertAccepted(r, dbOk) == dbOk /\ r.mt \in MediaTypeEnum

(***************************************************************************)
(* searchMedia: the awaited INSERT settles and the response is sent        *)
(***************************************************************************)
SearchInsertReturns(i, dbOk) ==
  LET r == req[i] IN
  /\ r.pc = "awaitInsert"
  /\ IF InsertAccepted(r, dbOk)
       THEN /\ searches' = searches \cup {NewSearchRow(nextSearchId, r, now)}
            /\ nextSearchId' = nextSearchId + 1
            /\ req' = [req EXCEPT ![i] = [r EXCEPT !.pc = "done",
                                                    !.row = nextSearchId]]
       ELSE /\ req' = [req EXCEPT ![i] =
                         [r EXCEPT !.pc = "done", !.logged = TRUE,
                                   !.status = InsertFailureStatus(variant, r.status),
                                   !.body = InsertFailureBody(variant, r.body)]]
            /\ UNCHANGED <<searches, nextSearchId>>
  /\ UNCHANGED <<variant, clientVars, uiVars, now, authVars, histRes>>

Tick ==
  /\ now < MaxTime
  /\ now' = now + 1
  /\ UNCHANGED <<variant, clientVars, uiVars, searchVars, authVars, histRes>>

(***************************************************************************)
(* The search-history store (SearchHistory.save / delete) and the          *)
(* deleteSearch controller, each one SQL statement on table searches       *)
(***************************************************************************)
HistoryQueries == { <<"c">> }
HistoryMediaTypes == { "image", "gif" }

NoHistRes == [ op |-> "none", user |-> 0, id |-> 0, ok |-> FALSE,
               threw |-> FALSE, status |-> 0,
               limit |-> 0, dflt |-> FALSE, rows |-> <<>>, count |-> 0 ]

\* SearchHistory.save: one INSERT; a rejected INSERT throws to the caller
HistorySave(u, q, mt, dbOk) ==
  LET r == [IdleReq EXCEPT !.user = u, !.q = q, !.mt = mt] IN
  /\ IF InsertAccepted(r, dbOk)
       THEN /\ searches' = searches \cup {NewSearchRow(nextSearchId, r, now)}
            /\ nextSearchId' = nextSearchId + 1
            /\ histRes' = [NoHistRes EXCEPT !.op = "save", !.user = u,
                                            !.id = nextSearchId, !.ok = TRUE]
       ELSE /\ histRes' = [NoHistRes EXCEPT !.op = "save", !.user = u,
                                            !.threw = TRUE]
            /\ UNCHANGED <<searches, nextSearchId>>
  /\ UNCHANGED <<variant, clientVars, uiVars, now, req, authVars>>

\* mutant: DELETE FROM searches WHERE id = ? (the owner is not checked)
DeleteMatchesAnyOwner(row, u, id) == row.id = id

\* DELETE FROM searches WHERE id = ? AND user_id = ?
DeleteMatches(row, u, id) == row.id = id /\ row.user_id = u

AffectedRows(u, id) == Cardinality({ row \in searches : DeleteMatches(row, u, id) })

RowsAfterDelete(u, id) == { row \in searches : ~DeleteMatches(row, u, id) }

\* SearchHistory.delete: true iff a row was removed; a database error throws
HistoryDelete(u, id, dbOk) ==
  /\ IF dbOk
       THEN /\ searches' = RowsAfterDelete(u, id)
            /\ histRes' = [NoHistRes EXCEPT !.op = "delete", !.user = u, !.id = id,
                                            !.ok = (AffectedRows(u, id) > 0)]
       ELSE /\ histRes' = [NoHistRes EXCEPT !.op = "delete", !.user = u, !.id = id,
                                            !.threw = TRUE]
            /\ UNCHANGED searches
  /\ UNCHANGED <<variant, clientVars, uiVars, nextSearchId, now, req, authVars>>

\* deleteSearch: 404 when no row was affected, 500 when the statement throws;
\* u = 0 is a request without req.user (v2 answers 401, v1 throws on req.user.id)
DeleteSearch(u, id, dbOk) ==
  /\ IF u = 0
       THEN /\ histRes' = [NoHistRes EXCEPT !.op = "deleteSearch", !.id = id,
                              !.status = IF variant = "v2" THEN 401 ELSE 500]
            /\ UNCHANGED searches
       ELSE IF ~dbOk
       THEN /\ histRes' = [NoHistRes EXCEPT !.op = "deleteSearch", !.user = u,
                                            !.id = id, !.status = 500]
            /\ UNCHANGED searches
       ELSE /\ searches' = RowsAfterDelete(u, id)
            /\ histRes' = [NoHistRes EXCEPT !.op = "deleteSearch", !.user = u,
                              !.id = id, !.ok = (AffectedRows(u, id) > 0),
                              !.status = IF AffectedRows(u, id) = 0 THEN 404 ELSE 200]
  /\ UNCHANGED <<variant, clientVars, uiVars, nextSearchId, now, req, authVars>>

(***************************************************************************)
(* Reading and clearing the history: SearchHistory.getRecent, the          *)
(* getRecentSearches controller and SearchHistory.clearAll                 *)
(***************************************************************************)
DEFAULT_LIMIT == 10
MAX_SEARCH_HISTORY == 10

\* the limit argument of getRecent: absent, or a number
Limits == { {}, {-1}, {1}, {2} }

\* getRecent(userId, limit = 10)
LimitOf(l) == IF l = {} THEN DEFAULT_LIMIT ELSE CHOOSE n \in l : TRUE

\* rows with created_at equal come in an order ORDER BY does not fix
TieOrders == { "asc", "desc" }

\* mutant: SELECT ... FROM searches (any owner)
SelectMatchesAnyOwner(row, u) == TRUE

\* WHERE user_id = ?
SelectMatches(row, u) == row.user_id = u

RECURSIVE OrderByCreatedAtDesc(_, _)
\* ORDER BY created_at DESC
OrderByCreatedAtDesc(S, tie) ==
  IF S = {} THEN <<>>
  ELSE LET newest == { r \in S : \A o \in S : o.created_at <= r.created_at }
           first == CHOOSE r \in newest : \A o \in newest :
                      IF tie = "asc" THEN r.id <= o.id ELSE r.id >= o.id
       IN <<first>> \o OrderByCreatedAtDesc(S \ {first}, tie)

\* mutant: no LIMIT clause
LimitRowsUnlimited(seq, n) == seq

\* LIMIT ?
LimitRows(seq, n) == SubSeq(seq, 1, IF n < Len(seq) THEN n ELSE Len(seq))

\* SELECT id, query, media_type, created_at
SelectColumns(row) ==
  [ id |-> row.id, query |-> row.query, media_type |-> row.media_type,
    created_at |-> row.created_at ]

\* the whole SELECT statement of getRecent / getRecentSearches
SelectRecent(u, n, tie) ==
  LET ordered == LimitRows(OrderByCreatedAtDesc(
                     { row \in searches : SelectMatches(row, u) }, tie), n)
  IN [ k \in 1..Len(ordered) |-> SelectColumns(ordered[k]) ]

\* SearchHistory.getRecent: a database error (a negative LIMIT is one) throws
HistoryGetRecent(u, l, tie, dbOk) ==
  /\ histRes' =
       IF dbOk /\ LimitOf(l) >= 0
         THEN [NoHistRes EXCEPT !.op = "getRecent", !.user = u, !.ok = TRUE,
                                !.limit = LimitOf(l), !.dflt = (l = {}),
                                !.rows = SelectRecent(u, LimitOf(l), tie)]
         ELSE [NoHistRes EXCEPT !.op = "getRecent", !.user = u, !.threw = TRUE]
  /\ UNCHANGED <<variant, clientVars, uiVars, searches, nextSearchId, now, req, authVars>>

\* getRecentSearches: u = 0 is a request without req.user (v2 answers 401,
\* v1 throws on req.user.id inside the try)
GetRecentSearches(u, tie, dbOk) ==
  /\ histRes' =
       IF u = 0
         THEN [NoHistRes EXCEPT !.op = "getRecentSearches",
                                !.status = IF variant = "v2" THEN 401 ELSE 500]
       ELSE IF ~dbOk
         THEN [NoHistRes EXCEPT !.op = "getRecentSearches", !.user = u,
                                !.status = 500]
       ELSE [NoHistRes EXCEPT !.op = "getRecentSearches", !.user = u,
                              !.ok = TRUE, !.status = 200,
                              !.limit = MAX_SEARCH_HISTORY, !.dflt = TRUE,
                              !.rows = SelectRecent(u, MAX_SEARCH_HISTORY, tie)]
  /\ UNCHANGED <<variant, clientVars, uiVars, searches, nextSearchId, now, req, authVars>>

\* mutant: DELETE FROM searches (every owner's rows)
ClearMatchesAnyOwner(row, u) == TRUE

\* DELETE FROM searches WHERE user_id = ?
ClearMatches(row, u) == row.user_id = u

\* SearchHistory.clearAll: returns result.affectedRows; a database error throws
HistoryClearAll(u, dbOk) ==
  /\ IF dbOk
       THEN /\ searches' = { row \in searches : ~ClearMatches(row, u) }
            /\ histRes' = [NoHistRes EXCEPT !.op = "clearAll", !.user = u,
                              !.ok = TRUE,
                              !.count = Cardinality({ row \in searches :
                                                        ClearMatches(row, u) })]
       ELSE /\ histRes' = [NoHistRes EXCEPT !.op = "clearAll", !.user = u,
                                            !.threw = TRUE]
            /\ UNCHANGED searches
  /\ UNCHANGED <<variant, clientVars, uiVars, nextSearchId, now, req, authVars>>

(***************************************************************************)
(* Authentication: the User model                                          *)
(***************************************************************************)
Registrations == {"g1", "g2"}

Names == { <<>>, <<"A", "l">> }
Emails == { <<>>, <<"x">>, <<"a", "@", "x">>, <<"b", "@", "x">> }
Passwords == { <<>>, <<"p">>, <<"q">> }

\* an attribute that was not selected, or a field that was not sent
Undefined == <<>>

\* bcrypt.hash: the hash is tagged; hashes of different data differ
BcryptHash(data) == <<"$2b$10$">> \o data

IsHash(v) == v # <<>> /\ Head(v) = "$2b$10$"

\* bcrypt.compare rejects ("data and hash arguments required") without a hash
BcryptCompareThrows(data, hash) == data = Undefined \/ hash = Undefined

BcryptCompare(data, hash) == hash = BcryptHash(data)

\* length of a value of the password column: a bcrypt hash has 60 characters
PasswordFieldLen(v) == IF IsHash(v) THEN 60 ELSE Len(v)

\* validate.isEmail of the User model
IsEmail(e) == \E k \in 2..(Len(e) - 1) : e[k] = "@"

\* the validators of User.init, run by User.create before the hooks
ModelValid(name, email, password) ==
  /\ name # <<>> /\ Len(name) >= 2 /\ Len(name) <= 100
  /\ email # <<>> /\ IsEmail(email)
  /\ password # <<>>
  /\ PasswordFieldLen(password) >= 8 /\ PasswordFieldLen(password) <= 255

\* hooks.beforeCreate: the password given to User.create is hashed (again)
BeforeCreate(password) ==
  IF password # Undefined THEN BcryptHash(password) ELSE password

\* mutant: the default scope does not exclude the password
DefaultScopeWithPassword(row) == row

\* defaultScope: attributes exclude password
DefaultScope(row) == [row EXCEPT !.password = Undefined]

\* User.findOne({ where: { email } })
FindByEmail(email) == { DefaultScope(row) : row \in { u \in users : u.email = email } }

\* User.findByPk(id)
FindByPk(id) == { DefaultScope(row) : row \in { u \in users : u.id = id } }

\* mutant: register without the existing-user check
EmailTakenUnchecked(email) == FALSE

\* const existingUser = await User.findOne({ where: { email } })
EmailTaken(email) == FindByEmail(email) # {}

(***************************************************************************)
(* Tokens                                                                  *)
(***************************************************************************)
TOKEN_EXPIRY == 1

NoToken == [ id |-> 0, email |-> <<>>, exp |-> 0, sig |-> "none" ]

\* jwt.sign({ id, email }, JWT_SECRET, { expiresIn: TOKEN_EXPIRY })
SignToken(id, email, t) ==
  [ id |-> id, email |-> email, exp |-> t + TOKEN_EXPIRY, sig |-> "ok" ]

\* the token as it appears in a response body: its claims are readable
TokenText(tok) == <<"jwt", ToString(tok.id), ToString(tok.exp)>> \o tok.email

\* mutant: jwt.verify with ignoreExpiration
JwtVerifiesIgnoringExpiry(tok, t) == tok.sig = "ok"

\* jwt.verify(token, JWT_SECRET): signature and expiry
JwtVerifies(tok, t) == tok.sig = "ok" /\ t < tok.exp

(***************************************************************************)
(* register                                                                *)
(***************************************************************************)
IdleReg ==
  [ pc |-> "idle", name |-> <<>>, email |-> <<>>, password |-> <<>>,
    status |-> 0, body |-> {}, created |-> 0 ]

NoAuthResp ==
  [ op |-> "none", email |-> <<>>, password |-> <<>>, user |-> 0,
    status |-> 0, body |-> {}, token |-> NoToken ]

NoAuthRes == [ tok |-> NoToken, status |-> 0, next |-> FALSE, user |-> 0 ]

Message(msg) == { <<"message", <<>>, <<msg>> >> }

\* the fields the v2 request validators reject: a missing field, a malformed email
RegisterFieldErrors(name, email, password) ==
  (IF name = <<>> THEN {"name"} ELSE {})
  \cup (IF email = <<>> \/ ~IsEmail(email) THEN {"email"} ELSE {})
  \cup (IF password = <<>> THEN {"password"} ELSE {})

\* errors.mapped(): per rejected field, the error with the submitted value
MappedErrors(fields, name, email, password) ==
  UNION { { <<f, <<"msg">>, <<"Invalid value">> >>,
            <<f, <<"value">>,
              CASE f = "name" -> name [] f = "email" -> email [] OTHER -> password>> }
          : f \in fields }

RegisterRejected(v, name, email, password) ==
  IF v = "v1" THEN name = <<>> \/ email = <<>> \/ password = <<>>
  ELSE RegisterFieldErrors(name, email, password) # {}

RegisterRejectedBody(v, name, email, password) ==
  IF v = "v1" THEN Message("ALL FIELDS ARE REQUIRED")
  ELSE Message("Validation failed")
       \cup MappedErrors(RegisterFieldErrors(name, email, password),
                         name, email, password)

RegisterFailedBody(v, st) ==
  IF st = 409
    THEN Message(IF v = "v1" THEN "EMAIL ALREADY REGISTERED"
                 ELSE "Email already registered")
    ELSE Message(IF v = "v1" THEN "SERVER ERROR DURING REGISTRATION"
                 ELSE "Registration failed")

\* mutant: the created user is returned whole
RegisterCreatedBodyWholeUser(v, row, tok) ==
  { <<"message", <<>>, <<"User registered successfully">> >>,
    <<"user", <<"id">>, <<ToString(row.id)>> >>,
    <<"user", <<"name">>, row.name>>,
    <<"user", <<"email">>, row.email>>,
    <<"user", <<"password">>, row.password>> }

RegisterCreatedBody(v, row, tok) ==
  IF v = "v1" THEN Message("USER REGISTERED SUCCESSFULLY")
  ELSE { <<"message", <<>>, <<"User registered successfully">> >>,
         <<"token", <<>>, TokenText(tok)>>,
         <<"user", <<"id">>, <<ToString(row.id)>> >>,
         <<"user", <<"name">>, row.name>>,
         <<"user", <<"email">>, row.email>> }

\* register up to the existing-user check
RegisterStart(i, name, email, password) ==
  /\ reg[i].pc = "idle"
  /\ LET r == [IdleReg EXCEPT !.name = name, !.email = email,
                              !.password = password] IN
     IF RegisterRejected(variant, name, email, password)
       THEN reg' = [reg EXCEPT ![i] =
                      [r EXCEPT !.pc = "done", !.status = 400,
                                !.body = RegisterRejectedBody(variant, name,
                                                              email, password)]]
       ELSE IF EmailTaken(email)
       THEN reg' = [reg EXCEPT ![i] =
                      [r EXCEPT !.pc = "done", !.status = 409,
                                !.body = RegisterFailedBody(variant, 409)]]
       ELSE reg' = [reg EXCEPT ![i] = [r EXCEPT !.pc = "create"]]
  /\ UNCHANGED <<variant, clientVars, uiVars, searchVars, now, histRes, users, nextUserId, tokens,
                 authResp, authRes>>

\* register from bcrypt.hash on: User.create (validators, beforeCreate hook,
\* the unique index on email), then the 201 response; any throw is a 500
RegisterCreate(i) ==
  LET r == reg[i]
      hashed == BcryptHash(r.password)
      row == [ id |-> nextUserId, name |-> r.name, email |-> r.email,
               password |-> BeforeCreate(hashed) ]
      tok == SignToken(nextUserId, r.email, now)
  IN
  /\ r.pc = "create"
  /\ IF ModelValid(r.name, r.email, hashed)
        /\ ~\E u \in users : u.email = r.email
       THEN /\ users' = users \cup {row}
            /\ nextUserId' = nextUserId + 1
            /\ tokens' = IF variant = "v2" THEN tokens \cup {tok} ELSE tokens
            /\ reg' = [reg EXCEPT ![i] =
                         [r EXCEPT !.pc = "done", !.status = 201,
                                   !.created = nextUserId,
                                   !.body = RegisterCreatedBody(variant, row, tok)]]
       ELSE /\ reg' = [reg EXCEPT ![i] =
                         [r EXCEPT !.pc = "done", !.status = 500,
                                   !.body = RegisterFailedBody(variant, 500)]]
            /\ UNCHANGED <<users, nextUserId, tokens>>
  /\ UNCHANGED <<variant, clientVars, uiVars, searchVars, now, histRes, authResp, authRes>>

(***************************************************************************)
(* login and getProfile                                                    *)
(***************************************************************************)
\* the fields the v2 request validators of login reject: a missing field
LoginFieldErrors(email, password) ==
  (IF email = <<>> THEN {"email"} ELSE {})
  \cup (IF password = <<>> THEN {"password"} ELSE {})

LoginRejected(v, email, password) ==
  IF v = "v1" THEN email = <<>> \/ password = <<>>
  ELSE LoginFieldErrors(email, password) # {}

LoginRejectedBody(v, email, password) ==
  IF v = "v1" THEN Message("EMAIL AND PASSWORD ARE REQUIRED")
  ELSE Message("Validation failed")
       \cup MappedErrors(LoginFieldErrors(email, password), <<>>, email, password)

LoginFailedBody(v, st) ==
  IF st = 401
    THEN Message(IF v = "v1" THEN "INVALID CREDENTIALS" ELSE "Invalid credentials")
  ELSE IF v = "v1"
    THEN Message("SERVER ERROR DURING LOGIN")
         \cup { <<"debugId", <<>>, <<"ERR-", ToString(now)>> >> }
    ELSE Message("Login failed")

LoginSuccessBody(v, u, tok) ==
  (IF v = "v1" THEN {} ELSE Message("Login successful"))
  \cup { <<"token", <<>>, TokenText(tok)>>,
         <<"user", <<"id">>, <<ToString(u.id)>> >>,
         <<"user", <<"name">>, u.name>>,
         <<"user", <<"email">>, u.email>> }

\* the status login answers with, in the order of the handler's checks
LoginStatus(v, email, password) ==
  IF LoginRejected(v, email, password) THEN 400
  ELSE IF FindByEmail(email) = {} THEN 401
  ELSE LET u == CHOOSE x \in FindByEmail(email) : TRUE IN
       IF BcryptCompareThrows(password, u.password) THEN 500
       ELSE IF ~BcryptCompare(password, u.password) THEN 401
       ELSE 200

Login(email, password) ==
  LET st == LoginStatus(variant, email, password)
      r == [NoAuthResp EXCEPT !.op = "login", !.email = email,
                              !.password = password, !.status = st]
  IN
  /\ IF st = 200
       THEN LET u == CHOOSE x \in FindByEmail(email) : TRUE
                tok == SignToken(u.id, u.email, now)
            IN /\ tokens' = tokens \cup {tok}
               /\ authResp' = [r EXCEPT !.token = tok, !.user = u.id,
                                        !.body = LoginSuccessBody(variant, u, tok)]
       ELSE /\ authResp' =
                 [r EXCEPT !.body =
                    IF st = 400 THEN LoginRejectedBody(variant, email, password)
                    ELSE LoginFailedBody(variant, st)]
            /\ UNCHANGED tokens
  /\ UNCHANGED <<variant, clientVars, uiVars, searchVars, now, histRes, users, nextUserId, reg, authRes>>

\* getProfile for req.user = uid (0: no req.user).  v1 selects the column
\* `username`, which table users does not have: the statement throws.
GetProfile(uid) ==
  LET r == [NoAuthResp EXCEPT !.op = "profile", !.user = uid] IN
  /\ authResp' =
       IF variant = "v1"
         THEN [r EXCEPT !.status = 500,
                        !.body = Message("SERVER ERROR FETCHING USER PROFILE")]
       ELSE IF uid = 0
         THEN [r EXCEPT !.status = 401, !.body = Message("Unauthorized")]
       ELSE IF FindByPk(uid) = {}
         THEN [r EXCEPT !.status = 404, !.body = Message("User not found")]
       ELSE LET u == CHOOSE x \in FindByPk(uid) : TRUE IN
            [r EXCEPT !.status = 200,
                      !.body = { <<"user", <<"id">>, <<ToString(u.id)>> >>,
                                 <<"user", <<"name">>, u.name>>,
                                 <<"user", <<"email">>, u.email>> }]
  /\ UNCHANGED <<variant, clientVars, uiVars, searchVars, now, histRes, users, nextUserId, tokens,
                 reg, authRes>>

(***************************************************************************)
(* authMiddleware                                                          *)
(***************************************************************************)
\* what a client can send as a bearer token: nothing, an issued token, or a
\* token with the claims of an issued one that the server did not sign
PresentableTokens ==
  {NoToken} \cup tokens \cup { [t EXCEPT !.sig = "bad"] : t \in tokens }

\* the user authMiddleware resolves, or none: next() is called iff there is one
ResolvedUsers(tok) ==
  IF tok.sig = "none" THEN {}
  ELSE IF ~JwtVerifies(tok, now) THEN {}
  ELSE FindByPk(tok.id)

Authenticate(tok) ==
  /\ authRes' =
       IF ResolvedUsers(tok) = {}
         THEN [NoAuthRes EXCEPT !.tok = tok, !.status = 401]
         ELSE [NoAuthRes EXCEPT !.tok = tok, !.next = TRUE,
                 !.user = (CHOOSE x \in ResolvedUsers(tok) : TRUE).id]
  /\ UNCHANGED <<variant, clientVars, uiVars, searchVars, now, histRes, users, nextUserId, tokens,
                 reg, authResp>>

\* a users row is deleted outside these handlers (none of them deletes users)
UserRowRemoved(uid) ==
  /\ \E u \in users : u.id = uid
  /\ users' = { u \in users : u.id # uid }
  /\ UNCHANGED <<variant, clientVars, uiVars, searchVars, now, histRes, nextUserId, tokens, reg,
                 authResp, authRes>>

(***************************************************************************)
(* The Openverse clients: mapping a raw result item                        *)
(*   "simple"  searchOpenverse(query, mediaType, page)                     *)
(*   "full"    searchOpenverse(params) with validateSearchParams and       *)
(*             transformMediaItem                                          *)
(*   "clamp"   searchOpenverse({ q, media_type, page, page_size })         *)
(*   "thunk"   the fetchMedia thunk of the frontend media slice            *)
(***************************************************************************)
Clients == { "simple", "full", "clamp", "thunk" }
Mappers == { "simple", "full", "thunk" }

\* a field of a raw item: undefined ("absent"), the empty string, or a value
Falsy(x) == x = Absent \/ x = ""

\* a || b
OrElse(a, b) == IF Falsy(a) THEN b ELSE a

\* raw items: any subset of the fields may be missing; license is a set
\* holding the license code, or empty when the field is missing
RawItems ==
  [ title : {Absent, "", "T"}, thumbnail : {Absent, "th"}, url : {Absent, "u"},
    license : { {}, {<<"b", "y", "_", "s", "a">>} },
    created_on : {Absent, "2020"}, tags : {Absent, "tags"} ]

UpperChar(c) ==
  CASE c = "a" -> "A" [] c = "b" -> "B" [] c = "s" -> "S" [] c = "y" -> "Y"
    [] OTHER -> c

\* String.prototype.toUpperCase
ToUpperCase(str) == [ k \in 1..Len(str) |-> UpperChar(str[k]) ]

\* replace(/_/g, ' ')
ReplaceUnderscores(str) == [ k \in 1..Len(str) |-> IF str[k] = "_" THEN " " ELSE str[k] ]

\* item.license.toUpperCase() throws a TypeError when license is undefined
TransformThrows(mapper, item) == mapper = "full" /\ item.license = {}

NoLicense == <<>>

LicenseCode(item) == IF item.license = {} THEN NoLicense ELSE CHOOSE c \in item.license : TRUE

\* the timestamp new Date().toISOString() gives at time t
IsoNow(t) == "now+" \o ToString(t)

MappedTitle(mapper, item) == OrElse(item.title, "Untitled")

MappedThumbnail(mapper, item) ==
  IF mapper = "thunk" THEN OrElse(item.thumbnail, "/placeholder.jpg")
  ELSE OrElse(item.thumbnail, item.url)

\* license of the result: the code as sent (simple), { code, name } (full),
\* the code or 'unknown' (thunk)
MappedLicense(mapper, item) ==
  IF mapper = "thunk" /\ (item.license = {} \/ LicenseCode(item) = <<>>)
    THEN <<"u", "n", "k", "n", "o", "w", "n">>
    ELSE LicenseCode(item)

MappedLicenseName(mapper, item) ==
  IF mapper = "full" /\ item.license # {}
    THEN ReplaceUnderscores(ToUpperCase(LicenseCode(item)))
    ELSE NoLicense

MappedCreated(mapper, item, t) ==
  CASE mapper = "thunk" -> OrElse(item.created_on, IsoNow(t))
    [] mapper = "full" -> item.created_on
    [] OTHER -> Absent

MappedTags(mapper, item) ==
  CASE mapper = "thunk" -> OrElse(item.tags, "[]")
    [] mapper = "full" -> item.tags
    [] OTHER -> Absent

NoResult ==
  [ threw |-> FALSE, title |-> Absent, thumbnail |-> Absent,
    license |-> NoLicense, license_defined |-> FALSE, license_name |-> NoLicense,
    created |-> Absent, tags |-> Absent ]

\* the mapping of one raw item at time t: transformMediaItem, or the mapping
\* callback of the simple client or of fetchMedia
Transform(mapper, item, t) ==
  IF TransformThrows(mapper, item) THEN [NoResult EXCEPT !.threw = TRUE]
  ELSE [ threw |-> FALSE,
         title |-> MappedTitle(mapper, item),
         thumbnail |-> MappedThumbnail(mapper, item),
         license |-> MappedLicense(mapper, item),
         license_defined |-> (mapper = "thunk" \/ item.license # {}),
         license_name |-> MappedLicenseName(mapper, item),
         created |-> MappedCreated(mapper, item, t),
         tags |-> MappedTags(mapper, item) ]

NoItem ==
  [ title |-> Absent, thumbnail |-> Absent, url |-> Absent, license |-> {},
    created_on |-> Absent, tags |-> Absent ]

NoMapping ==
  [ mapper |-> "none", item |-> NoItem, out |-> NoResult, at |-> 0,
    again |-> FALSE, again_out |-> NoResult, again_at |-> 0 ]

\* one raw item is mapped
MapItem(mapper, item) ==
  /\ mapped' = [NoMapping EXCEPT !.mapper = mapper, !.item = item,
                                 !.out = Transform(mapper, item, now),
                                 !.at = now]
  /\ UNCHANGED <<serverVars, uiVars, now, ov, session>>

\* the same raw item is mapped once more by the same mapper
MapAgain ==
  /\ mapped.mapper # "none"
  /\ mapped' = [mapped EXCEPT !.again = TRUE,
                  !.again_out = Transform(mapped.mapper, mapped.item, now),
                  !.again_at = now]
  /\ UNCHANGED <<serverVars, uiVars, now, ov, session>>

(***************************************************************************)
(* The Openverse clients: one search call                                  *)
(***************************************************************************)
OvQueries == { <<>>, <<" ">>, <<"c">> }
\* optional numbers: the empty set is undefined
OvPageSizes == { {}, {0}, {-1}, {1}, {50}, {51}, {501} }
OvPages == { {}, {0}, {-1}, {2} }
OvOutcomes == { "ok", "noResults", "http404", "http500", "timeout", "network" }
\* the items of a response: a complete one and one without license
OvItems ==
  { [ title |-> "T", thumbnail |-> "th", url |-> "u",
      license |-> {<<"b", "y", "_", "s", "a">>}, created_on |-> "2020",
      tags |-> "tags" ],
    [ title |-> Absent, thumbnail |-> Absent, url |-> "u", license |-> {},
      created_on |-> Absent, tags |-> Absent ] }

IdleCall ==
  [ pc |-> "idle", client |-> "none", query |-> <<>>, page |-> {}, pageSize |-> {},
    sent |-> FALSE, gets |-> 0, out_page |-> {}, out_page_size |-> {},
    outcome |-> "none", kind |-> "none", status |-> 0, message |-> "",
    results |-> <<>> ]

Num(opt) == CHOOSE n \in opt : TRUE

\* x && cond(x) on an optional number: undefined and 0 are falsy
Truthy(opt) == opt # {} /\ Num(opt) # 0

\* validateSearchParams throws (full client only)
ValidateThrows(client, query, page, pageSize) ==
  /\ client = "full"
  /\ \/ query = <<>> \/ Trim(query) = <<>>
     \/ Truthy(pageSize) /\ (Num(pageSize) < 1 \/ Num(pageSize) > 50)
     \/ Truthy(page) /\ Num(page) < 1

ValidateMessage(query, page, pageSize) ==
  IF query = <<>> \/ Trim(query) = <<>> THEN "Search query cannot be empty"
  ELSE IF Truthy(pageSize) /\ (Num(pageSize) < 1 \/ Num(pageSize) > 50)
    THEN "Page size must be between 1 and 50"
  ELSE "Page number must be at least 1"

Max(a, b) == IF a >= b THEN a ELSE b
Min(a, b) == IF a <= b THEN a ELSE b

\* params.page_size of the outbound request (fetchMedia sends none)
OutPageSize(client, pageSize) ==
  CASE client = "simple" -> {20}
    [] client = "full" -> IF pageSize = {} THEN {20} ELSE pageSize
    [] client = "clamp" ->
         { Min(500, Max(1, IF pageSize = {} THEN 20 ELSE Num(pageSize))) }
    [] OTHER -> {}

\* params.page of the outbound request
OutPage(client, page) ==
  IF client = "clamp" THEN { Max(1, IF page = {} THEN 1 ELSE Num(page)) }
  ELSE IF page = {} THEN {1} ELSE page

\* searchOpenverse / fetchMedia up to the awaited axios.get
SearchOpenverse(client, query, page, pageSize) ==
  LET c == [IdleCall EXCEPT !.client = client, !.query = query, !.page = page,
                            !.pageSize = pageSize] IN
  /\ ov.pc = "idle"
  /\ ov' = IF ValidateThrows(client, query, page, pageSize)
             THEN [c EXCEPT !.pc = "done", !.kind = "OpenverseApiError",
                            !.message = ValidateMessage(query, page, pageSize)]
             ELSE [c EXCEPT !.pc = "awaitCall", !.sent = TRUE, !.gets = 1,
                            !.out_page = OutPage(client, page),
                            !.out_page_size = OutPageSize(client, pageSize)]
  /\ UNCHANGED <<serverVars, uiVars, now, mapped, session>>

\* error.message of the axios error
AxiosMessage(outcome) ==
  CASE outcome = "timeout" -> "timeout of 10000ms exceeded"
    [] outcome = "network" -> "Network Error"
    [] outcome = "http404" -> "Request failed with status code 404"
    [] OTHER -> "Request failed with status code 500"

\* the status code the thrown error carries (0: none)
ErrorStatus(client, outcome) ==
  IF client = "full" THEN HttpStatusOf(outcome) ELSE 0

\* the class of what the client throws or rejects with for a failed call
ErrorKind(client, outcome) ==
  CASE client = "full" -> "OpenverseApiError"
    [] client = "thunk" -> "rejected"
    [] OTHER -> "Error"

\* the message of what the client throws or rejects with for a failed call
ErrorMessage(client, outcome) ==
  CASE client = "full" -> AxiosMessage(outcome)
    [] client = "simple" -> "Failed to fetch media from Openverse"
    [] client = "clamp" ->
         "MEDIA SEARCH FAILED: " \o
           (IF HttpStatusOf(outcome) # 0 THEN ToString(HttpStatusOf(outcome))
            ELSE "undefined")
    [] OTHER ->
         IF outcome = "timeout" THEN "Request timeout"
         ELSE IF outcome = "http404" THEN "detail of the upstream response"
         ELSE "Network error"

\* mutant: a failed GET is issued once more
AfterFailureRetry(client, outcome) == "awaitCall"

\* where the call stands after a failed GET: the catch block throws (or
\* rejects) at once, no client issues the request again
AfterFailure(client, outcome) == "done"

\* the awaited axios.get settles; a 2xx body without results and a mapping
\* that throws are failures of the call as well
OpenverseReturns(outcome, items) ==
  LET c == ov
      outs == [ k \in 1..Len(items) |-> Transform(c.client, items[k], now) ]
      mapThrows == \E k \in 1..Len(items) : TransformThrows(c.client, items[k])
  IN
  /\ c.pc = "awaitCall"
  /\ outcome \notin {"ok", "noResults"} => items = <<>>
  /\ outcome = "noResults" => items = <<>>
  /\ ov' =
       IF outcome \notin {"ok", "noResults"}
         THEN [c EXCEPT !.pc = AfterFailure(c.client, outcome),
                        !.gets = IF AfterFailure(c.client, outcome) = "awaitCall"
                                   THEN c.gets + 1 ELSE c.gets,
                        !.outcome = outcome,
                        !.kind = ErrorKind(c.client, outcome),
                        !.status = ErrorStatus(c.client, outcome),
                        !.message = ErrorMessage(c.client, outcome)]
       ELSE IF c.client = "clamp"
         THEN [c EXCEPT !.pc = "done", !.outcome = outcome, !.kind = "data"]
       ELSE IF outcome = "noResults"
         THEN [c EXCEPT !.pc = "done", !.outcome = outcome,
                 !.kind = ErrorKind(c.client, outcome),
                 !.status = IF c.client = "full" THEN 500 ELSE 0,
                 !.message = IF c.client = "simple"
                               THEN "Failed to fetch media from Openverse"
                               ELSE "Invalid API response structure"]
       ELSE IF mapThrows
         THEN [c EXCEPT !.pc = "done", !.outcome = outcome,
                        !.kind = "OpenverseApiError",
                        !.message = "Cannot read properties of undefined"]
       ELSE [c EXCEPT !.pc = "done", !.outcome = outcome, !.kind = "results",
                      !.results = outs]
  /\ UNCHANGED <<serverVars, uiVars, now, mapped, session>>

(***************************************************************************)
(* The browser session: the auth slice with isAuthenticated and the        *)
(* token expiry kept in localStorage                                       *)
(***************************************************************************)
\* payload.token and payload.expiresIn of an AuthResponse; the backend's
\* responses carry no expiresIn (the empty set)
SessionTokens == { 1, 2 }
ExpiresIns == { {}, {1}, {2} }

\* localStorage item token_expiry: absent, the string "NaN", or a time
NoExpiry == [ kind |-> "none", at |-> 0 ]

\* String(Date.now() + expiresIn * 1000)
ExpiryString(expiresIn, t) ==
  IF expiresIn = {} THEN [ kind |-> "NaN", at |-> 0 ]
  ELSE [ kind |-> "num", at |-> t + Num(expiresIn) ]

\* the state of a fresh browser: nothing stored, nobody logged in
InitialSession ==
  [ token |-> 0, isAuthenticated |-> FALSE, status |-> "idle", ls_token |-> 0,
    ls_expiry |-> NoExpiry, expires |-> 0, last |-> "init" ]

\* storeAuthData(token, expiresIn)
StoreAuthData(s, token, expiresIn, t) ==
  [s EXCEPT !.ls_token = token, !.ls_expiry = ExpiryString(expiresIn, t)]

\* clearAuthData(): both items are removed
ClearAuthData(s) == [s EXCEPT !.ls_token = 0, !.ls_expiry = NoExpiry]

\* the time the server stops accepting the token received at time t
TokenExpires(expiresIn, t) ==
  t + (IF expiresIn = {} THEN TOKEN_EXPIRY ELSE Num(expiresIn))

\* mutant: the stored expiry is not compared with the clock
CheckTokenExpiryStoredOnly(s, t) == s.ls_expiry.kind # "none"

\* checkTokenExpiry(): expiry ? Date.now() < Number(expiry) : false
CheckTokenExpiry(s, t) ==
  /\ s.ls_expiry.kind # "none"
  /\ s.ls_expiry.kind = "num" /\ t < s.ls_expiry.at

\* selectIsAuthenticated
SelectIsAuthenticated(s, t) == s.isAuthenticated /\ CheckTokenExpiry(s, t)

\* reducer setCredentials
SetCredentials(token, expiresIn) ==
  /\ session' = [StoreAuthData(session, token, expiresIn, now) EXCEPT
                   !.token = token, !.isAuthenticated = TRUE,
                   !.expires = TokenExpires(expiresIn, now),
                   !.last = "setCredentials"]
  /\ UNCHANGED <<serverVars, uiVars, now, ov, mapped>>

\* the loginUser thunk stores the auth data, then loginUser.fulfilled
LoginUserFulfilled(token, expiresIn) ==
  /\ session' = [StoreAuthData(session, token, expiresIn, now) EXCEPT
                   !.token = token, !.isAuthenticated = TRUE,
                   !.status = "succeeded",
                   !.expires = TokenExpires(expiresIn, now),
                   !.last = "loginUser.fulfilled"]
  /\ UNCHANGED <<serverVars, uiVars, now, ov, mapped>>

\* reducer logout
Logout ==
  /\ session' = [ClearAuthData(session) EXCEPT
                   !.token = 0, !.isAuthenticated = FALSE, !.status = "idle",
                   !.expires = 0, !.last = "logout"]
  /\ UNCHANGED <<serverVars, uiVars, now, ov, mapped>>

\* loginUser.pending
LoginUserPending ==
  /\ session' = [session EXCEPT !.status = "loading", !.last = "loginUser.pending"]
  /\ UNCHANGED <<serverVars, uiVars, now, ov, mapped>>

\* loginUser.rejected
LoginUserRejected ==
  /\ session.status = "loading"
  /\ session' = [session EXCEPT !.status = "failed", !.last = "loginUser.rejected"]
  /\ UNCHANGED <<serverVars, uiVars, now, ov, mapped>>

(***************************************************************************)
(* The media slice: fetchMedia.pending / fulfilled / rejected, clearMedia  *)
(***************************************************************************)
Fetches == { "f1", "f2", "f3" }
MediaQueries == { "a", "b" }

IdleFetch == [ pc |-> "idle", query |-> "", result |-> "none", payload |-> <<>> ]

\* initialState, with no fetchMedia dispatched yet
InitialMedia ==
  [ items |-> <<>>, status |-> "idle", error |-> "none",
    query |-> "", page |-> 1, hasMore |-> FALSE,
    fetch |-> [ f \in Fetches |-> IdleFetch ] ]

\* what the API returns for a fetch: no item, or one item of that query
Payloads(f, q) == { <<>>, << [ from |-> q, fetch |-> f ] >> }

\* mutant: pending resets the list for every dispatch
PendingResetsAlways(q, current) == TRUE

\* action.meta.arg.query !== state.searchMeta.query
PendingResets(q, current) == q # current

\* dispatch(fetchMedia({ query: q })): the pending reducer runs at once
FetchMediaPending(f, q) ==
  /\ media.fetch[f].pc = "idle"
  /\ media' =
       LET m == [media EXCEPT !.status = "loading", !.error = "none",
                              !.fetch[f] = [IdleFetch EXCEPT !.pc = "pending",
                                                             !.query = q]]
       IN IF PendingResets(q, media.query)
            THEN [m EXCEPT !.query = q, !.page = 1, !.hasMore = FALSE,
                           !.items = <<>>]
            ELSE m
  /\ UNCHANGED <<serverVars, clientVars, now, auth, loginPage, home, pager>>

\* the thunk of fetch f returns: the fulfilled reducer
FetchMediaFulfilled(f, payload) ==
  /\ media.fetch[f].pc = "pending"
  /\ media' = [media EXCEPT !.status = "succeeded",
                            !.items = media.items \o payload,
                            !.page = media.page + 1,
                            !.hasMore = (Len(payload) > 0),
                            !.fetch[f] = [media.fetch[f] EXCEPT
                                            !.pc = "done", !.result = "fulfilled",
                                            !.payload = payload]]
  /\ UNCHANGED <<serverVars, clientVars, now, auth, loginPage, home, pager>>

\* the thunk of fetch f rejects: the rejected reducer
FetchMediaRejected(f) ==
  /\ media.fetch[f].pc = "pending"
  /\ media' = [media EXCEPT !.status = "failed", !.error = "Network error",
                            !.fetch[f] = [media.fetch[f] EXCEPT
                                            !.pc = "done", !.result = "rejected"]]
  /\ UNCHANGED <<serverVars, clientVars, now, auth, loginPage, home, pager>>

\* reducer clearMedia
ClearMedia ==
  /\ media' = [media EXCEPT !.items = <<>>, !.query = "", !.page = 1,
                            !.hasMore = FALSE, !.status = "idle",
                            !.error = "none"]
  /\ UNCHANGED <<serverVars, clientVars, now, auth, loginPage, home, pager>>

(***************************************************************************)
(* The auth slice that persists the token under 'token', with its thunks   *)
(* registerUser and loginUser                                              *)
(***************************************************************************)
Thunks == { "t1", "t2" }
ThunkKinds == { "registerUser", "loginUser" }
IssuedTokens == { "jwt1", "jwt2" }
Null == "null"

IdleThunk == [ pc |-> "idle", kind |-> "none" ]

\* initialState with an empty localStorage.  loggedOut records history: it
\* is TRUE from a logout until the next dispatch of registerUser, loginUser
\* or setCredentials.
InitialAuth ==
  [ token |-> Null, user |-> Null, status |-> "idle", error |-> Null,
    ls_token |-> Null, loggedOut |-> FALSE,
    thunk |-> [ t \in Thunks |-> IdleThunk ] ]

\* the user object that the response carries with token tok
UserOf(tok) == "user of " \o tok

\* reducer setCredentials
AuthSetCredentials(tok) ==
  /\ auth' = [auth EXCEPT !.token = tok, !.user = UserOf(tok),
                          !.ls_token = tok, !.loggedOut = FALSE]
  /\ UNCHANGED <<serverVars, clientVars, now, media, loginPage, home, pager>>

\* reducer logout
AuthLogout ==
  /\ auth' = [auth EXCEPT !.token = Null, !.user = Null, !.ls_token = Null,
                          !.loggedOut = TRUE]
  /\ UNCHANGED <<serverVars, clientVars, now, media, loginPage, home, pager>>

\* dispatch(registerUser(..)) or dispatch(loginUser(..)): the pending reducer
ThunkPending(t, kind) ==
  /\ auth.thunk[t].pc = "idle"
  /\ auth' = [auth EXCEPT !.status = "loading", !.error = Null,
                          !.loggedOut = FALSE,
                          !.thunk[t] = [ pc |-> "pending", kind |-> kind ]]
  /\ UNCHANGED <<serverVars, clientVars, now, media, loginPage, home, pager>>

\* the response is ok: the thunk stores data.token and returns data, and the
\* fulfilled reducer takes token and user from the payload
ThunkFulfilled(t, tok) ==
  /\ auth.thunk[t].pc = "pending"
  /\ auth' = [auth EXCEPT !.ls_token = tok,
                          !.status = "succeeded",
                          !.token = tok, !.user = UserOf(tok),
                          !.thunk[t] = [auth.thunk[t] EXCEPT !.pc = "fulfilled"]]
  /\ UNCHANGED <<serverVars, clientVars, now, media, loginPage, home, pager>>

\* the response is not ok or fetch throws: rejectWithValue, the rejected reducer
ThunkRejected(t) ==
  /\ auth.thunk[t].pc = "pending"
  /\ auth' = [auth EXCEPT !.status = "failed",
                          !.error = IF auth.thunk[t].kind = "loginUser"
                                      THEN "Login failed"
                                      ELSE "Registration failed",
                          !.thunk[t] = [auth.thunk[t] EXCEPT !.pc = "rejected"]]
  /\ UNCHANGED <<serverVars, clientVars, now, media, loginPage, home, pager>>

(***************************************************************************)
(* The Login page: the component state, with status and error of the auth  *)
(* slice as the component selects them                                     *)
(***************************************************************************)
MaxLogins == 5
RATE_LIMIT == 3
CaptchaTokens == { Null, "captcha" }
LoginOutcomes == { "fulfilled", "Invalid credentials", "Login failed" }

\* the mounted component: useState defaults, auth status 'idle', error null;
\* dep is the authError that the effect last ran with, logins counts the
\* loginUser thunks dispatched
InitialLoginPage ==
  [ pc |-> "mounted", attempts |-> 0, showCaptcha |-> FALSE,
    captchaToken |-> Null, localError |-> "",
    status |-> "idle", authError |-> Null, dep |-> Null, logins |-> 0 ]

\* mutant: the limit is one attempt later
IsRateLimitedLate(attempts) == attempts >= RATE_LIMIT + 1

\* isRateLimited = attempts >= 3
IsRateLimited(attempts) == attempts >= RATE_LIMIT

\* isSubmitting = status === 'loading'
IsSubmitting(p) == p.status = "loading"

\* authError?.includes('Invalid credentials')
IncludesInvalidCredentials(e) == e = "Invalid credentials"

\* useEffect(.., [authError]): runs after a render in which authError differs
\* from the one of the last run
TrackFailedAttempts(p) ==
  IF p.authError = p.dep THEN p
  ELSE IF IncludesInvalidCredentials(p.authError)
    THEN [p EXCEPT !.dep = p.authError,
                   !.attempts = p.attempts + 1,
                   !.showCaptcha = p.showCaptcha
                                     \/ IsRateLimited(p.attempts + 1)]
  ELSE [p EXCEPT !.dep = p.authError]

\* handleSubmit with a form that is valid or not: the validation, the rate
\* limit, then dispatch(loginUser(..)) whose pending reducer runs at once.
\* The form cannot be submitted while isSubmitting disables its button; the
\* rate limit is the handler's own test.
HandleSubmit(emailOk, passwordOk) ==
  /\ loginPage.pc = "mounted"
  /\ ~IsSubmitting(loginPage)
  /\ loginPage.logins < MaxLogins
  /\ loginPage' =
       IF ~emailOk
         THEN [loginPage EXCEPT !.localError = "Please enter a valid email address"]
       ELSE IF ~passwordOk
         THEN [loginPage EXCEPT
                 !.localError = "Password must be at least 6 characters"]
       ELSE IF IsRateLimited(loginPage.attempts) /\ loginPage.captchaToken = Null
         THEN [loginPage EXCEPT !.localError = "Please complete the CAPTCHA"]
       ELSE TrackFailedAttempts(
              [loginPage EXCEPT !.localError = "", !.status = "loading",
                                !.authError = Null,
                                !.logins = loginPage.logins + 1])
  /\ UNCHANGED <<serverVars, clientVars, now, media, auth, home, pager>>

\* the login request returns: loginUser.fulfilled and navigate('/search'), or
\* loginUser.rejected with the message of the response
LoginReturns(outcome) ==
  /\ loginPage.pc = "mounted"
  /\ loginPage.status = "loading"
  /\ loginPage' =
       IF outcome = "fulfilled"
         THEN [loginPage EXCEPT !.status = "succeeded", !.pc = "navigated"]
         ELSE TrackFailedAttempts(
                [loginPage EXCEPT !.status = "failed", !.authError = outcome])
  /\ UNCHANGED <<serverVars, clientVars, now, media, auth, home, pager>>

\* handleCaptchaVerify(token), called by the widget shown with showCaptcha
HandleCaptchaVerify(token) ==
  /\ loginPage.pc = "mounted"
  /\ loginPage.showCaptcha
  /\ loginPage' = [loginPage EXCEPT
                     !.captchaToken = token,
                     !.localError = IF token # Null THEN "" ELSE @]
  /\ UNCHANGED <<serverVars, clientVars, now, media, auth, home, pager>>

(***************************************************************************)
(* The Home page: handleSearch and the search history in localStorage      *)
(***************************************************************************)
HISTORY_SIZE == 10
HomeCalls == { "s1", "s2", "s3" }
HomeQueries == { " ", "a", "b" }

\* what localStorage holds under 'searchHistory' when the page is opened
StoredHistories ==
  { <<>>, <<"h1", "h2", "h3", "h4", "h5", "h6", "h7", "h8", "h9", "h10">> }

IdleSearch == [ pc |-> "idle", query |-> "", captured |-> <<>>, ok |-> FALSE ]

\* before the component is rendered
InitialHome ==
  [ pc |-> "closed", history |-> <<>>,
    call |-> [ c \in HomeCalls |-> IdleSearch ] ]

\* query.trim() is empty
IsBlank(q) == q \in { "", " " }

\* searchHistory.includes(query)
Includes(history, q) == \E k \in 1..Len(history) : history[k] = q

\* prev => [query, ...prev].slice(0, 10)
Prepend(q, prev) == SubSeq(<<q>> \o prev, 1, Min(Len(prev) + 1, HISTORY_SIZE))

\* the first render: useLocalStorage('searchHistory', []) reads the stored list
HomeMount(stored) ==
  /\ home.pc = "closed"
  /\ home' = [home EXCEPT !.pc = "open", !.history = stored]
  /\ UNCHANGED <<serverVars, clientVars, now, media, auth, loginPage, pager>>

\* handleSearch(query) up to its await; the callback holds the searchHistory
\* of the render that created it
HandleSearch(c, q) ==
  /\ home.pc = "open"
  /\ home.call[c].pc = "idle"
  /\ home' = [home EXCEPT
                !.call[c] = IF IsBlank(q)
                              THEN [IdleSearch EXCEPT !.pc = "done", !.query = q]
                              ELSE [ pc |-> "awaitSearch", query |-> q,
                                     captured |-> home.history, ok |-> FALSE ]]
  /\ UNCHANGED <<serverVars, clientVars, now, media, auth, loginPage, pager>>

\* mockSearchAPI.search returns or throws: the rest of handleSearch
HandleSearchReturns(c, ok) ==
  LET s == home.call[c] IN
  /\ s.pc = "awaitSearch"
  /\ home' = [home EXCEPT
                !.call[c] = [s EXCEPT !.pc = "done", !.ok = ok],
                !.history = IF ok /\ ~Includes(s.captured, s.query)
                              THEN Prepend(s.query, home.history)
                              ELSE home.history]
  /\ UNCHANGED <<serverVars, clientVars, now, media, auth, loginPage, pager>>

(***************************************************************************)
(* The Pagination component                                                *)
(***************************************************************************)
MaxPages == 7

\* Array.from({ length: n }, (_, i) => first + i)
ArrayFrom(n, first) == [ k \in 1..n |-> first + (k - 1) ]

\* mutant: half the window is the whole window
HalfWhole(maxVisiblePages) == maxVisiblePages

\* Math.floor(maxVisiblePages / 2)
Half(maxVisiblePages) == maxVisiblePages \div 2

\* the useMemo that computes visiblePages
VisiblePages(currentPage, totalPages, maxVisiblePages) ==
  IF totalPages <= maxVisiblePages
    THEN ArrayFrom(totalPages, 1)
    ELSE LET half == Half(maxVisiblePages)
             start0 == Max(1, currentPage - half)
             end == Min(totalPages, start0 + maxVisiblePages - 1)
             start == IF end - start0 + 1 < maxVisiblePages
                        THEN Max(1, end - maxVisiblePages + 1)
                        ELSE start0
         IN ArrayFrom(Min(maxVisiblePages, totalPages), start)

\* before the component is rendered; called holds the argument of the
\* onPageChange call of the last handlePageChange, if it made one
InitialPager ==
  [ pc |-> "closed", currentPage |-> 1, totalPages |-> 0,
    maxVisiblePages |-> 5, visiblePages |-> <<>>, called |-> {} ]

\* the parent renders <Pagination currentPage totalPages maxVisiblePages />
RenderPagination(currentPage, totalPages, maxVisiblePages) ==
  /\ pager' = [ pc |-> "rendered", currentPage |-> currentPage,
                totalPages |-> totalPages,
                maxVisiblePages |-> maxVisiblePages,
                visiblePages |-> VisiblePages(currentPage, totalPages,
                                              maxVisiblePages),
                called |-> {} ]
  /\ UNCHANGED <<serverVars, clientVars, now, media, auth, loginPage, home>>

\* handlePageChange(page); onPageChange is the parent's setCurrentPage, after
\* which the component is rendered with the new currentPage
HandlePageChange(page) ==
  /\ pager.pc = "rendered"
  /\ pager' =
       IF page >= 1 /\ page <= pager.totalPages
         THEN [pager EXCEPT
                 !.called = { page },
                 !.currentPage = page,
                 !.visiblePages = VisiblePages(page, pager.totalPages,
                                               pager.maxVisiblePages)]
         ELSE [pager EXCEPT !.called = {}]
  /\ UNCHANGED <<serverVars, clientVars, now, media, auth, loginPage, home>>


(***************************************************************************)
(* Initial state and the specifications                                    *)
(***************************************************************************)
Init ==
  /\ variant \in Variants
  /\ searches = {}
  /\ nextSearchId = 1
  /\ now = 0
  /\ req = [i \in Requests |-> IdleReq]
  /\ users = {}
  /\ nextUserId = 1
  /\ tokens = {}
  /\ reg = [i \in Registrations |-> IdleReg]
  /\ authResp = NoAuthResp
  /\ authRes = NoAuthRes
  /\ histRes = NoHistRes
  /\ ov = IdleCall
  /\ mapped = NoMapping
  /\ session = InitialSession
  /\ media = InitialMedia
  /\ auth = InitialAuth
  /\ loginPage = InitialLoginPage
  /\ home = InitialHome
  /\ pager = InitialPager

Next ==
  \/ \E i \in Requests, rawq \in RawQueries, rawmt \in RawMediaTypes,
        rawpage \in RawPages, u \in {0} \cup UserIds :
       SearchStart(i, rawq, rawmt, rawpage, u)
  \/ \E i \in Requests, outcome \in UpstreamOutcomes : SearchCallReturns(i, outcome)
  \/ \E i \in Requests, dbOk \in BOOLEAN : SearchInsertReturns(i, dbOk)
  \/ Tick

Spec == Init /\ [][Next]_vars

NextHistory ==
  \/ \E u \in UserIds, q \in HistoryQueries, mt \in HistoryMediaTypes,
        dbOk \in BOOLEAN :
       nextSearchId <= MaxSearchId /\ HistorySave(u, q, mt, dbOk)
  \/ \E u \in UserIds, id \in 1..MaxSearchId, dbOk \in BOOLEAN :
       HistoryDelete(u, id, dbOk)
  \/ \E u \in {0} \cup UserIds, id \in 1..MaxSearchId, dbOk \in BOOLEAN :
       DeleteSearch(u, id, dbOk)
  \/ \E u \in UserIds, l \in Limits, tie \in TieOrders, dbOk \in BOOLEAN :
       HistoryGetRecent(u, l, tie, dbOk)
  \/ \E u \in {0} \cup UserIds, tie \in TieOrders, dbOk \in BOOLEAN :
       GetRecentSearches(u, tie, dbOk)
  \/ \E u \in UserIds, dbOk \in BOOLEAN : HistoryClearAll(u, dbOk)
  \/ Tick

SpecHistory == Init /\ [][NextHistory]_vars

\* the history of one busy user (and one row of another): enough rows to
\* pass the default limit
MaxRecentId == 12

NextRecent ==
  \/ \E u \in UserIds, q \in HistoryQueries :
       /\ nextSearchId <= MaxRecentId
       /\ u = 2 => nextSearchId = 2
       /\ HistorySave(u, q, "image", TRUE)
  \/ \E u \in {1}, id \in {1, MaxRecentId} : HistoryDelete(u, id, TRUE)
  \/ \E u \in {1} : HistoryClearAll(u, TRUE)
  \/ \E u \in UserIds, l \in { {}, {2} }, tie \in TieOrders :
       HistoryGetRecent(u, l, tie, TRUE)
  \/ \E u \in {1}, tie \in TieOrders : GetRecentSearches(u, tie, TRUE)
  \/ Tick

SpecRecent == Init /\ [][NextRecent]_vars

NextOpenverse ==
  \/ \E client \in Clients, query \in OvQueries, page \in OvPages,
        pageSize \in OvPageSizes : SearchOpenverse(client, query, page, pageSize)
  \/ \E outcome \in OvOutcomes, items \in {<<>>} \cup { <<i>> : i \in OvItems } :
       OpenverseReturns(outcome, items)

SpecOpenverse == Init /\ [][NextOpenverse]_vars

NextMapping ==
  \/ \E mapper \in Mappers, item \in RawItems : MapItem(mapper, item)
  \/ MapAgain
  \/ Tick

SpecMapping == Init /\ [][NextMapping]_vars

NextSession ==
  \/ \E token \in SessionTokens, expiresIn \in ExpiresIns :
       SetCredentials(token, expiresIn)
  \/ \E token \in SessionTokens, expiresIn \in ExpiresIns :
       LoginUserFulfilled(token, expiresIn)
  \/ Logout
  \/ LoginUserPending
  \/ LoginUserRejected
  \/ Tick

SpecSession == Init /\ [][NextSession]_vars

NextMedia ==
  \/ \E f \in Fetches, q \in MediaQueries : FetchMediaPending(f, q)
  \/ \E f \in Fetches :
       \E payload \in Payloads(f, media.fetch[f].query) :
         FetchMediaFulfilled(f, payload)
  \/ \E f \in Fetches : FetchMediaRejected(f)
  \/ ClearMedia

SpecMedia == Init /\ [][NextMedia]_vars

NextStoredAuth ==
  \/ \E tok \in IssuedTokens : AuthSetCredentials(tok)
  \/ AuthLogout
  \/ \E t \in Thunks, kind \in ThunkKinds : ThunkPending(t, kind)
  \/ \E t \in Thunks, tok \in IssuedTokens : ThunkFulfilled(t, tok)
  \/ \E t \in Thunks : ThunkRejected(t)

SpecStoredAuth == Init /\ [][NextStoredAuth]_vars

NextLoginPage ==
  \/ \E emailOk \in BOOLEAN, passwordOk \in BOOLEAN :
       HandleSubmit(emailOk, passwordOk)
  \/ \E outcome \in LoginOutcomes : LoginReturns(outcome)
  \/ \E token \in CaptchaTokens : HandleCaptchaVerify(token)

SpecLoginPage == Init /\ [][NextLoginPage]_vars

NextHome ==
  \/ \E stored \in StoredHistories : HomeMount(stored)
  \/ \E c \in HomeCalls, q \in HomeQueries : HandleSearch(c, q)
  \/ \E c \in HomeCalls, ok \in BOOLEAN : HandleSearchReturns(c, ok)

SpecHome == Init /\ [][NextHome]_vars

NextPagination ==
  \/ \E currentPage \in 1..MaxPages, totalPages \in 0..MaxPages,
        maxVisiblePages \in 1..MaxPages :
       RenderPagination(currentPage, totalPages, maxVisiblePages)
  \/ \E page \in -1..(MaxPages + 1) : HandlePageChange(page)

SpecPagination == Init /\ [][NextPagination]_vars

NextRegister ==
  \/ \E i \in Registrations, name \in Names, email \in Emails,
        password \in Passwords : RegisterStart(i, name, email, password)
  \/ \E i \in Registrations : RegisterCreate(i)

NextAuth ==
  \/ NextRegister
  \/ \E email \in Emails, password \in Passwords : Login(email, password)
  \/ \E uid \in {0} \cup UserIds : GetProfile(uid)

SpecAuth == Init /\ [][NextAuth]_vars

NextToken ==
  \/ NextRegister
  \/ \E tok \in PresentableTokens : Authenticate(tok)
  \/ \E uid \in UserIds : UserRowRemoved(uid)
  \/ Tick

SpecToken == Init /\ [][NextToken]_vars

(***************************************************************************)
(* Properties of the search-history store (checked under SpecHistory)      *)
(***************************************************************************)
\* the step is a delete (store or controller) by user u of record id
IsDeleteStep(u, id) ==
  /\ histRes'.op \in {"delete", "deleteSearch"}
  /\ histRes'.user = u
  /\ histRes'.id = id
  /\ ~histRes'.threw
  /\ histRes'.status # 500
  /\ (histRes' # histRes \/ searches' # searches)

\* C4: delete(userId = A, searchId) where the record belongs to another
\* user B returns false (deleteSearch: 404) and removes no record at all.
C4_DeleteForeignRecord ==
  [][ \A u \in UserIds, id \in 1..MaxSearchId :
        (IsDeleteStep(u, id)
           /\ \E row \in searches : row.id = id /\ row.user_id # u)
        => /\ searches' = searches
           /\ ~histRes'.ok
           /\ histRes'.op = "deleteSearch" => histRes'.status = 404 ]_vars

C4_Witness ==
  /\ histRes.op = "deleteSearch"
  /\ histRes.status = 404
  /\ \E row \in searches : row.id = histRes.id /\ row.user_id # histRes.user
  /\ \E row \in searches : row.user_id = histRes.user

(***************************************************************************)
(* Properties of the search pipeline (checked under Spec)                  *)
(***************************************************************************)
Finished(r) == r.pc = "done"

RowOf(r) == { row \in searches : row.id = r.row }

RowMatches(r) ==
  /\ r.row # 0
  /\ \E row \in searches :
       /\ row.id = r.row
       /\ row.user_id = r.user
       /\ row.query = r.q
       /\ row.media_type = r.mt

\* every row of the table is the row of exactly one request
RowsAccounted ==
  /\ \A row \in searches : \E i \in Requests : req[i].row = row.id
  /\ \A i, j \in Requests : (i # j /\ req[i].row # 0) => req[i].row # req[j].row
  /\ \A row1, row2 \in searches : row1.id = row2.id => row1 = row2

\* C1 as stated: every request with a valid query whose Openverse call
\* succeeded has inserted exactly one row (user_id, q, media_type) when
\* req.user is set, and none when the caller is anonymous.
C1_Original ==
  \A i \in Requests :
    (Finished(req[i]) /\ req[i].upstream = "ok") =>
      IF req[i].user # 0 THEN RowMatches(req[i]) /\ RowsAccounted
      ELSE req[i].row = 0 /\ req[i].inserts = 0

\* C1 amended: such a request attempts exactly one INSERT (user_id, q,
\* media_type); the table gains exactly that one row when the database
\* accepts the INSERT and no row when it rejects it (the rejection is
\* logged); an anonymous request attempts no INSERT and adds no row.
C1_SearchInsertsOneRow ==
  /\ RowsAccounted
  /\ \A i \in Requests :
       (Finished(req[i]) /\ req[i].upstream = "ok") =>
         IF req[i].user # 0
           THEN /\ req[i].inserts = 1
                /\ req[i].row # 0 => RowMatches(req[i])
                /\ req[i].row = 0 => req[i].logged
           ELSE req[i].row = 0 /\ req[i].inserts = 0

C1_Witness ==
  \E i, j \in Requests :
    /\ Finished(req[i]) /\ req[i].upstream = "ok" /\ req[i].user # 0
    /\ req[i].status = 200 /\ RowMatches(req[i]) /\ req[i].mt = "audio"
    /\ Finished(req[j]) /\ req[j].upstream = "ok" /\ req[j].user = 0
    /\ req[j].status = 200 /\ req[j].q = req[i].q /\ req[j].row = 0
    /\ Cardinality(searches) = 1

\* C2: a request whose Openverse call failed is answered with an error and
\* has created no row, whether or not the caller is authenticated.
C2_FailedCallRecordsNothing ==
  /\ \A i \in Requests :
       (Finished(req[i]) /\ req[i].upstream = "fail") =>
         /\ req[i].status >= 400
         /\ req[i].body = "error"
         /\ req[i].inserts = 0
         /\ req[i].row = 0
  /\ \A row \in searches :
       \E i \in Requests : req[i].row = row.id /\ req[i].upstream = "ok"

C2_Witness ==
  \E i, j \in Requests :
    /\ Finished(req[i]) /\ req[i].upstream = "fail" /\ req[i].user # 0
    /\ Finished(req[j]) /\ req[j].upstream = "fail" /\ req[j].user = 0
    /\ req[i].status >= 400 /\ req[j].status >= 400
    /\ searches = {}

\* a request whose history INSERT was attempted and rejected
InsertFailed(r) ==
  Finished(r) /\ r.upstream = "ok" /\ r.user # 0 /\ r.inserts = 1 /\ r.row = 0

\* C3: when the Openverse call succeeds for an authenticated user and the
\* history INSERT then fails, the failure is logged and the caller still
\* receives the successful response with the results.
C3_InsertFailureSwallowed ==
  \A i \in Requests :
    InsertFailed(req[i]) =>
      req[i].logged /\ req[i].status = 200 /\ req[i].body = "results"

C10_InsertAfterCall ==
  \A i \in Requests :
    /\ (req[i].inserts > 0 \/ req[i].pc = "awaitInsert" \/ req[i].row # 0) =>
         (req[i].upstream = "ok" /\ req[i].calls = 1)
    /\ req[i].upstream \in {"none", "pending", "fail"} =>
         (req[i].inserts = 0 /\ req[i].row = 0)

C10_Witness ==
  \E i, j \in Requests :
    /\ req[i].pc = "awaitInsert" /\ req[i].upstream = "ok" /\ req[i].inserts = 1
    /\ req[j].pc = "awaitCall" /\ req[j].upstream = "pending"
    /\ req[j].user # 0 /\ req[j].inserts = 0

(***************************************************************************)
(* Properties of the authentication handlers                               *)
(***************************************************************************)
RegisterStarts(i) == reg[i].pc = "idle" /\ reg'[i].pc # "idle"

WellFormed(name, email, password) ==
  name # <<>> /\ password # <<>> /\ IsEmail(email)

\* C5: a well-formed register for an email that a users row already holds is
\* answered 409 and changes no row, and no two users rows share an email.
C5_DuplicateEmailConflict ==
  [][ /\ \A i \in Registrations :
           ( /\ RegisterStarts(i)
             /\ WellFormed(reg'[i].name, reg'[i].email, reg'[i].password)
             /\ \E u \in users : u.email = reg'[i].email )
           => (reg'[i].status = 409 /\ users' = users)
      /\ \A u1, u2 \in users' : u1.email = u2.email => u1 = u2 ]_vars

C5_Witness ==
  \E i, j \in Registrations :
    /\ reg[i].status = 201 /\ reg[j].status = 409
    /\ reg[i].email = reg[j].email
    /\ Cardinality({ u \in users : u.email = reg[i].email }) = 1

\* every response body one of register, login and getProfile has sent
AuthBodies == { reg[i].body : i \in Registrations } \cup { authResp.body }

\* the passwords and password hashes the system has seen or stored
Secrets ==
  ({ reg[i].password : i \in Registrations } \cup { authResp.password }
   \cup { u.password : u \in users }) \ { <<>> }

LoginAnswers ==
  authResp'.op = "login" /\ authResp' # authResp
  /\ authResp'.email # <<>> /\ authResp'.password # <<>>

Registered(email) == \E u \in users : u.email = email

Matches(email, password) ==
  \E u \in users : u.email = email /\ BcryptCompare(password, u.password)

\* C7: a login whose email is not registered, or whose password does not match
\* the stored hash, is answered 401 without a token; a token is issued only
\* for a registered email with a matching password.
C7_LoginRejectsBadCredentials ==
  [][ LoginAnswers =>
        /\ (~Registered(authResp'.email)
            \/ ~Matches(authResp'.email, authResp'.password))
             => (authResp'.status = 401 /\ authResp'.token = NoToken
                 /\ tokens' = tokens)
        /\ (authResp'.token # NoToken \/ tokens' # tokens)
             => (Registered(authResp'.email)
                 /\ Matches(authResp'.email, authResp'.password)) ]_vars

Authenticates == authRes' # authRes

\* C8: authMiddleware answers 401 and does not call next when the token is
\* missing, not signed by the server, expired, or names a user that no longer
\* exists; when it calls next, req.user is an existing user the token names.
C8_MiddlewareGuardsNext ==
  [][ Authenticates =>
        LET tok == authRes'.tok IN
        /\ ( \/ tok.sig # "ok"
             \/ now >= tok.exp
             \/ ~\E u \in users : u.id = tok.id )
             => (authRes'.status = 401 /\ ~authRes'.next /\ authRes'.user = 0)
        /\ authRes'.next
             => ( /\ authRes'.user = tok.id
                  /\ authRes'.status = 0
                  /\ \E u \in users : u.id = authRes'.user ) ]_vars

C8_Witness ==
  /\ authRes.tok.sig = "ok"
  /\ now < authRes.tok.exp
  /\ ~\E u \in users : u.id = authRes.tok.id
  /\ authRes.status = 401 /\ ~authRes.next

(***************************************************************************)
(* Properties of reading and clearing the history                          *)
(***************************************************************************)
RecentAnswered == histRes.op \in {"getRecent", "getRecentSearches"} /\ histRes.ok

ReturnedIds == { histRes.rows[k].id : k \in 1..Len(histRes.rows) }

\* C11: what getRecent / getRecentSearches returns has at most limit entries
\* (at most 10 when no limit is given), no entry was created before one that
\* follows it, and no row of that user left out is newer than a returned one.
C11_RecentBoundedNewestFirst ==
  RecentAnswered =>
    /\ Len(histRes.rows) <= histRes.limit
    /\ histRes.dflt => Len(histRes.rows) <= 10
    /\ \A i, j \in 1..Len(histRes.rows) :
         i < j => histRes.rows[i].created_at >= histRes.rows[j].created_at
    /\ \A o \in searches :
         (o.user_id = histRes.user /\ o.id \notin ReturnedIds)
           => \A k \in 1..Len(histRes.rows) :
                o.created_at <= histRes.rows[k].created_at

C11_Witness ==
  /\ RecentAnswered /\ histRes.dflt
  /\ Len(histRes.rows) = 10
  /\ histRes.rows[1].created_at > histRes.rows[10].created_at
  /\ \E o \in searches : o.user_id = histRes.user /\ o.id \notin ReturnedIds
  /\ \E id \in 1..(nextSearchId - 1) : \A o \in searches : o.id # id

\* C12: getRecent / getRecentSearches for a user returns only rows that user
\* owns, every row id has one owner, and no step changes the owner of a row.
C12_HistoryIsolated ==
  [][ /\ (histRes'.op \in {"getRecent", "getRecentSearches"} /\ histRes'.ok)
           => \A k \in 1..Len(histRes'.rows) :
                \E row \in searches :
                  row.id = histRes'.rows[k].id /\ row.user_id = histRes'.user
      /\ \A r1, r2 \in searches' : r1.id = r2.id => r1.user_id = r2.user_id
      /\ \A r1 \in searches, r2 \in searches' :
           r1.id = r2.id => r1.user_id = r2.user_id ]_vars

C12_Witness ==
  /\ RecentAnswered
  /\ Len(histRes.rows) >= 1
  /\ \E row \in searches : row.user_id # histRes.user
  /\ \E row \in searches : row.user_id = histRes.user /\ row.id \notin ReturnedIds

\* C13: a register request with a field missing or a malformed email is
\* answered 400 and inserts no users row.
C13_RegisterValidation ==
  \A i \in Registrations :
    ( /\ reg[i].pc = "done"
      /\ ~WellFormed(reg[i].name, reg[i].email, reg[i].password) )
      => (reg[i].status = 400 /\ reg[i].created = 0)

\* C14: a search whose Openverse call failed is answered with a 5xx status,
\* whatever status the upstream sent.
C14_UpstreamFailureIs5xx ==
  \A i \in Requests :
    (req[i].pc = "done" /\ req[i].upstream = "fail")
      => (req[i].status >= 500 /\ req[i].status <= 599)

(***************************************************************************)
(* Properties of the Openverse clients                                     *)
(***************************************************************************)
ProxyClients == { "full", "clamp" }

\* C15: every call of the proxy search with a non-blank query sends a request
\* whose page_size is within 1..50 and whose page is at least 1, whatever
\* pageSize and page were given.
C15_PagingClamped ==
  (ov.pc # "idle" /\ ov.client \in ProxyClients /\ Trim(ov.query) # <<>>)
    => /\ ov.sent
       /\ \A n \in ov.out_page_size : n >= 1 /\ n <= 50
       /\ \A n \in ov.out_page : n >= 1
       /\ ov.out_page_size # {} /\ ov.out_page # {}

\* C16: mapping a raw item never throws, whichever fields are missing.
C16_MappingNeverFails ==
  mapped.mapper # "none" => ~mapped.out.threw

Unknown == <<"u", "n", "k", "n", "o", "w", "n">>

\* C17: a mapping that returns gives a missing title "Untitled", a missing
\* thumbnail the url or a placeholder, a missing license "unknown", and the
\* same item mapped twice by the same mapper gives the same result.
C17_MappingDeterministic ==
  /\ (mapped.mapper # "none" /\ ~mapped.out.threw) =>
       /\ Falsy(mapped.item.title) => mapped.out.title = "Untitled"
       /\ Falsy(mapped.item.thumbnail) =>
            mapped.out.thumbnail \in { mapped.item.url, "/placeholder.jpg" }
       /\ mapped.item.license = {} =>
            (mapped.out.license_defined /\ mapped.out.license = Unknown)
  /\ (mapped.again /\ ~mapped.out.threw /\ ~mapped.again_out.threw)
       => mapped.again_out = mapped.out

FailureOutcomes == { "http404", "http500", "timeout", "network" }

\* C18: a failed call ends in an error that carries the upstream status when
\* the upstream sent one, and a timeout ends in an error that differs from
\* the error of every other failure.
C18_ErrorsCarryStatus ==
  (ov.pc = "done" /\ ov.outcome \in FailureOutcomes) =>
    /\ HttpStatusOf(ov.outcome) # 0 => ov.status = HttpStatusOf(ov.outcome)
    /\ ov.outcome = "timeout" =>
         \A o \in FailureOutcomes \ {"timeout"} :
           <<ov.kind, ov.status, ov.message>> #
             <<ErrorKind(ov.client, o), ErrorStatus(ov.client, o),
               ErrorMessage(ov.client, o)>>

C20_ClearAllFrame ==
  [][ \A u \in UserIds :
        ( /\ histRes'.op = "clearAll" /\ histRes'.ok /\ histRes'.user = u
          /\ (histRes' # histRes \/ searches' # searches) )
          => /\ searches' = { row \in searches : row.user_id # u }
             /\ histRes'.count =
                  Cardinality({ row \in searches : row.user_id = u })
             /\ \A tie \in TieOrders :
                  (SelectRecent(u, DEFAULT_LIMIT, tie))' = <<>> ]_vars

C20_Witness ==
  /\ histRes.op = "clearAll" /\ histRes.ok
  /\ histRes.count >= 2
  /\ \E row \in searches : row.user_id # histRes.user
  /\ ~\E row \in searches : row.user_id = histRes.user

\* C21: a search call of an Openverse client issues at most one GET, and a
\* failed GET ends the call with an error, without a second request.
C21_NoRetry ==
  /\ ov.gets <= 1
  /\ ov.outcome \in FailureOutcomes =>
       /\ ov.pc = "done" /\ ov.gets = 1
       /\ ov.kind \in { "OpenverseApiError", "Error", "rejected" }

C21_Witness ==
  /\ ov.pc = "done" /\ ov.outcome \in {"timeout", "http500"}
  /\ ov.client = "full" /\ ov.gets = 1

\* C22: a login with the email and the password of a register request that
\* was answered 201 is answered 200 with a token.
C22_RegisterLoginRoundTrip ==
  [][ ( /\ authResp'.op = "login" /\ authResp' # authResp
        /\ \E i \in Registrations :
             /\ reg[i].status = 201
             /\ reg[i].email = authResp'.email
             /\ reg[i].password = authResp'.password
             /\ \E u \in users : u.id = reg[i].created )
        => (authResp'.status = 200 /\ authResp'.token # NoToken) ]_vars

\* C23: of two completed well-formed register requests for the same email,
\* however they interleave, one is answered 201 and the other 409, and no two
\* users rows share an email.
C23_ConcurrentRegister ==
  /\ \A i, j \in Registrations :
       ( /\ i # j /\ reg[i].pc = "done" /\ reg[j].pc = "done"
         /\ reg[i].email = reg[j].email
         /\ WellFormed(reg[i].name, reg[i].email, reg[i].password)
         /\ WellFormed(reg[j].name, reg[j].email, reg[j].password) )
         => {reg[i].status, reg[j].status} = {201, 409}
  /\ \A u1, u2 \in users : u1.email = u2.email => u1 = u2

(***************************************************************************)
(* Properties of the media slice                                           *)
(***************************************************************************)
\* C24: every item of state.items came from a fetch for the query that
\* state.searchMeta.query names.
C24_ItemsMatchQuery ==
  \A k \in 1..Len(media.items) : media.items[k].from = media.query

PendingStep(f) == media.fetch[f].pc = "idle" /\ media'.fetch[f].pc = "pending"

FulfilledStep(f) ==
  media.fetch[f].pc = "pending" /\ media'.fetch[f].result = "fulfilled"

\* C25: a pending for a query other than searchMeta.query empties the items
\* and sets searchMeta to that query, page 1, hasMore false; a pending for the
\* same query leaves items and searchMeta alone; a fulfilled appends its
\* payload to the items and adds one to page.
C25_PendingResetsOrPreserves ==
  [][ \A f \in Fetches :
        /\ (PendingStep(f) /\ media'.fetch[f].query # media.query)
             => /\ media'.items = <<>>
                /\ media'.query = media'.fetch[f].query
                /\ media'.page = 1 /\ media'.hasMore = FALSE
        /\ (PendingStep(f) /\ media'.fetch[f].query = media.query)
             => /\ media'.items = media.items
                /\ media'.query = media.query
                /\ media'.page = media.page /\ media'.hasMore = media.hasMore
        /\ FulfilledStep(f)
             => /\ media'.items = media.items \o media'.fetch[f].payload
                /\ media'.page = media.page + 1
                /\ media'.query = media.query ]_vars

C25_Witness ==
  /\ Len(media.items) = 2
  /\ media.page = 3
  /\ \E f, g \in Fetches :
       /\ f # g
       /\ media.fetch[f].result = "fulfilled" /\ media.fetch[g].result = "fulfilled"
       /\ media.fetch[f].query = media.query /\ media.fetch[g].query = media.query

(***************************************************************************)
(* Properties of the auth slice that persists the token                    *)
(***************************************************************************)
\* C26: from a logout until the next dispatch of loginUser, registerUser or
\* setCredentials, the token and the user of the store are null and
\* localStorage has no 'token'; a thunk that was in flight at the logout
\* does not bring the token back.
C26_LogoutStays ==
  auth.loggedOut =>
    /\ auth.token = Null
    /\ auth.user = Null
    /\ auth.ls_token = Null

\* C27: after loginUser.fulfilled the session counts as authenticated for as
\* long as the token that the login issued has not expired.
C27_LoginAuthenticates ==
  (session.last = "loginUser.fulfilled" /\ now < session.expires)
    => SelectIsAuthenticated(session, now)

(***************************************************************************)
(* Properties of the Login page                                            *)
(***************************************************************************)
\* C28: attempts grows by one with each failed login whose error contains
\* 'Invalid credentials', changes on no other step and never decreases; a
\* loginUser is dispatched at attempts >= 3 only when a CAPTCHA token is set.
C28_RateLimit ==
  [][ /\ (loginPage.status = "loading" /\ loginPage'.status = "failed"
          /\ IncludesInvalidCredentials(loginPage'.authError))
           => loginPage'.attempts = loginPage.attempts + 1
      /\ ~(loginPage.status = "loading" /\ loginPage'.status = "failed"
           /\ IncludesInvalidCredentials(loginPage'.authError))
           => loginPage'.attempts = loginPage.attempts
      /\ loginPage'.logins # loginPage.logins
           => (loginPage.attempts >= 3 => loginPage.captchaToken # Null) ]_vars

C28_Witness ==
  /\ loginPage.attempts = 4
  /\ loginPage.captchaToken # Null
  /\ loginPage.status = "loading"
  /\ loginPage.logins = 5

(***************************************************************************)
(* Properties of the Home page                                             *)
(***************************************************************************)
NoQueryTwice(history) ==
  \A j, k \in 1..Len(history) : history[j] = history[k] => j = k

\* C29: the stored history has at most 10 entries and no query twice; it
\* changes only when a search with a non-blank query completes successfully,
\* and then that query is put first and the older entries keep their order.
C29_HistoryInvariant ==
  [][ /\ Len(home'.history) <= 10
      /\ NoQueryTwice(home'.history)
      /\ (home.pc = "open" /\ home'.history # home.history) =>
            \E c \in HomeCalls :
              /\ home.call[c].pc = "awaitSearch" /\ home'.call[c].pc = "done"
              /\ home'.call[c].ok /\ ~IsBlank(home.call[c].query)
              /\ home'.history[1] = home.call[c].query
              /\ \A k \in 2..Len(home'.history) :
                   home'.history[k] = home.history[k - 1] ]_vars

(***************************************************************************)
(* Properties of the Pagination component                                  *)
(***************************************************************************)
\* C30: with more pages than the window and currentPage in 1..totalPages,
\* visiblePages is a run of maxVisiblePages consecutive ascending pages inside
\* 1..totalPages that contains currentPage; with no more pages than the
\* window it is 1..totalPages; onPageChange is called only with a page in
\* 1..totalPages.
C30_VisiblePages ==
  LET v == pager.visiblePages
      total == pager.totalPages
      maxVisible == pager.maxVisiblePages
  IN pager.pc = "rendered" =>
       /\ (total > maxVisible /\ pager.currentPage \in 1..total) =>
            /\ Len(v) = maxVisible
            /\ \A k \in 1..Len(v) : v[k] \in 1..total
            /\ \A k \in 1..(Len(v) - 1) : v[k + 1] = v[k] + 1
            /\ \E k \in 1..Len(v) : v[k] = pager.currentPage
       /\ total <= maxVisible =>
            /\ Len(v) = total
            /\ \A k \in 1..total : v[k] = k
       /\ \A page \in pager.called : page \in 1..total

C30_Witness ==
  /\ pager.pc = "rendered"
  /\ pager.totalPages = 7 /\ pager.maxVisiblePages = 4
  /\ pager.called = { 6 }
  /\ pager.visiblePages = <<4, 5, 6, 7>>

====
